---- MODULE Spec2Model ----
(***************************************************************************)
(* Model of the view generators of generator/views: PingView               *)
(* (ping_view.py) and GleanPingView (glean_ping_view.py).                  *)
(*                                                                         *)
(* A Python string is a sequence of tokens: a token is a lower-case word   *)
(* or one of the separator characters "_" and ".".  The name               *)
(* metrics__counter__app_foo is                                            *)
(*   <<"metrics","_","_","counter","_","_","app","_","foo">>,              *)
(* so that split("__"), split("."), "_".join, startswith and the f-strings *)
(* of the source are computed token by token.  A dict is a record; an      *)
(* optional key is a field that is or is not in the record's DOMAIN.       *)
(*                                                                         *)
(* A call either returns, [ok |-> TRUE, value |-> v], or raises,           *)
(* [ok |-> FALSE, exc |-> class, msg |-> what the message names].          *)
(***************************************************************************)
EXTENDS Integers, Sequences, FiniteSets, TLC

VARIABLES call, result

vars == <<call, result>>

(***************************************************************************)
(* Bounds of the model.                                                    *)
(***************************************************************************)
MaxDims == 4

MaxCols == 3

MaxProbes == 2

MaxCatalog == 3

MaxChannels == 2

MaxFlat == 2

(***************************************************************************)
(* Strings.                                                                *)
(***************************************************************************)
US == "_"

DOT == "."

Dunder == <<US, US>>

NoneVal == "None"

Returns(v) == [ok |-> TRUE, value |-> v]

Raises(e, m) == [ok |-> FALSE, exc |-> e, msg |-> m]

Range(s) == {s[i] : i \in 1..Len(s)}

\* str.split(sep) for a one- or two-character separator: leftmost matches,
\* never overlapping; always at least one (possibly empty) piece.
RECURSIVE SplitFrom(_, _, _, _)
SplitFrom(s, sep, i, cur) ==
    IF i > Len(s) THEN <<cur>>
    ELSE IF i + Len(sep) - 1 <= Len(s) /\ SubSeq(s, i, i + Len(sep) - 1) = sep
         THEN <<cur>> \o SplitFrom(s, sep, i + Len(sep), <<>>)
         ELSE SplitFrom(s, sep, i + 1, Append(cur, s[i]))

Split(s, sep) == SplitFrom(s, sep, 1, <<>>)

\* sep.join(parts)
RECURSIVE Join(_, _)
Join(parts, sep) ==
    IF Len(parts) = 0 THEN <<>>
    ELSE IF Len(parts) = 1 THEN parts[1]
    ELSE parts[1] \o sep \o Join(Tail(parts), sep)

StartsWith(s, p) == Len(s) >= Len(p) /\ SubSeq(s, 1, Len(p)) = p

\* The words of the model's alphabet, capitalised as str.title() does.
Cap(w) ==
    CASE w = "app" -> "App"
      [] w = "foo" -> "Foo"
      [] w = "a" -> "A"
      [] w = "b" -> "B"
      [] w = "c" -> "C"
      [] w = "client" -> "Client"
      [] w = "document" -> "Document"
      [] w = "id" -> "Id"
      [] w = "info" -> "Info"
      [] w = "ping" -> "Ping"
      [] w = "count" -> "Count"
      [] w = "numerator" -> "Numerator"
      [] w = "denominator" -> "Denominator"
      [] w = "sum" -> "Sum"
      [] w = "value" -> "Value"
      [] w = "release" -> "Release"
      [] w = "beta" -> "Beta"
      [] w = "nightly" -> "Nightly"
      [] OTHER -> w

\* s.replace("_", " ").title()
SpacedTitle(s) == [i \in 1..Len(s) |-> IF s[i] = US THEN " " ELSE Cap(s[i])]

\* [k for k, v in Counter(names).items() if v > 1]: the names that occur more
\* than once, in the order of their first occurrence.
Occurrences(names, n) == Cardinality({i \in 1..Len(names) : names[i] = n})

RECURSIVE DuplicatesFrom(_, _)
DuplicatesFrom(names, i) ==
    IF i > Len(names) THEN <<>>
    ELSE IF Occurrences(names, names[i]) > 1
            /\ \A j \in 1..(i - 1) : names[j] # names[i]
         THEN <<names[i]>> \o DuplicatesFrom(names, i + 1)
         ELSE DuplicatesFrom(names, i + 1)

Duplicates(names) == DuplicatesFrom(names, 1)

Names(ds) == [i \in 1..Len(ds) |-> ds[i].name]

\* All sequences over S of length at most n, and those without a repeated element.
SeqsUpTo(S, n) == UNION {[1..k -> S] : k \in 0..n}

DistinctSeqsUpTo(S, n) ==
    {s \in SeqsUpTo(S, n) : \A i, j \in 1..Len(s) : i # j => s[i] # s[j]}

(***************************************************************************)
(* Column names of the flattened schema.                                   *)
(***************************************************************************)
client_id == <<"client", US, "id">>

client_info__client_id == <<"client", US, "info", US, US, "client", US, "id">>

document_id == <<"document", US, "id">>

metrics__counter__app_foo == <<"metrics", US, US, "counter", US, US, "app", US, "foo">>

metrics__counter__ping_count == <<"metrics", US, US, "counter", US, US, "ping", US, "count">>

metrics__counter__a_b_c == <<"metrics", US, US, "counter", US, US, "a", US, "b", US, "c">>

metrics__string__app_foo == <<"metrics", US, US, "string", US, US, "app", US, "foo">>

metrics__labeled_counter__app_foo ==
    <<"metrics", US, US, "labeled", US, "counter", US, US, "app", US, "foo">>

\* A column as the flattener gives it: name and sql, here without a type.
Column(n) == [name |-> n, sql |-> <<"${TABLE}", n>>]

\* f"${{{dimension_name}}}"
FieldRef(n) == <<"${", n, "}">>

(***************************************************************************)
(* PingView.get_measures                                                   *)
(***************************************************************************)
ClientIdNames == {client_id, client_info__client_id}

\* The scan with the first rule knowing client_id alone.
RECURSIVE ScanMeasures_ClientIdOnly(_)
ScanMeasures_ClientIdOnly(dimensions) ==
    IF Len(dimensions) = 0 THEN <<>>
    ELSE LET dimension_name == Head(dimensions).name
             rest == ScanMeasures_ClientIdOnly(Tail(dimensions))
         IN  IF dimension_name = client_id
             THEN <<[name |-> <<"clients">>, type |-> "count_distinct",
                     sql |-> FieldRef(dimension_name)]>> \o rest
             ELSE IF dimension_name = document_id
             THEN <<[name |-> <<"ping", US, "count">>, type |-> "count"]>> \o rest
             ELSE rest

\* The two-rule scan over the dimensions (the for loop).
RECURSIVE ScanMeasures(_)
ScanMeasures(dimensions) ==
    IF Len(dimensions) = 0 THEN <<>>
    ELSE LET dimension_name == Head(dimensions).name
             rest == ScanMeasures(Tail(dimensions))
         IN  IF dimension_name \in ClientIdNames
             THEN <<[name |-> <<"clients">>, type |-> "count_distinct",
                     sql |-> FieldRef(dimension_name)]>> \o rest
             ELSE IF dimension_name = document_id
             THEN <<[name |-> <<"ping", US, "count">>, type |-> "count"]>> \o rest
             ELSE rest

\* get_measures without the test for an empty measure list.
PingGetMeasures_EmptyAllowed(dimensions, table) ==
    LET measures == ScanMeasures(dimensions)
        duplicates == Duplicates(Names(measures))
    IN  IF Len(duplicates) > 0
        THEN Raises("ClickException",
                    [text |-> "duplicate measure", names |-> <<duplicates[1]>>,
                     table |-> table])
        ELSE Returns(measures)

PingGetMeasures(dimensions, table) ==
    LET measures == ScanMeasures(dimensions)
        duplicates == Duplicates(Names(measures))
    IN  IF Len(duplicates) > 0
        THEN Raises("ClickException",
                    [text |-> "duplicate measure", names |-> <<duplicates[1]>>,
                     table |-> table])
        ELSE IF Len(measures) = 0
        THEN Raises("ClickException",
                    [text |-> "Missing client_id and doc_id dimensions",
                     names |-> <<>>, table |-> table])
        ELSE Returns(measures)

(***************************************************************************)
(* GleanPingView: the decoding of a dimension's name.                      *)
(***************************************************************************)
\* _get_name splitting at every "_": the last word of the name.
GetName_LastWord(dimension) ==
    LET parts == Split(dimension.name, <<US>>) IN parts[Len(parts)]

GetName(dimension) ==
    LET parts == Split(dimension.name, Dunder) IN parts[Len(parts)]

\* split("__")[1]: an IndexError when the name holds no "__"; every caller
\* asks only after _is_metric, whose prefix holds one.
GetMetricType(dimension) == Split(dimension.name, Dunder)[2]

IsMetric(dimension) == StartsWith(dimension.name, <<"metrics", US, US>>)

GetLinks(namespace, dimension) ==
    LET name == GetName(dimension)
    IN  <<[label |-> <<"Glean Dictionary reference for">> \o SpacedTitle(name),
           url |-> <<"https://dictionary.telemetry.mozilla.org/apps/", namespace,
                     "/metrics/">> \o name,
           icon_url |-> "https://dictionary.telemetry.mozilla.org/favicon.png"]>>

\* The first dimension that is a client identifier, None without one.
GetClientId(dimensions, table) ==
    LET hits == {i \in 1..Len(dimensions) : dimensions[i].name \in ClientIdNames}
    IN  IF hits = {} THEN NoneVal
        ELSE dimensions[CHOOSE i \in hits : \A j \in hits : i <= j].name

(***************************************************************************)
(* GleanPingView.get_measures                                              *)
(***************************************************************************)
RECURSIVE CounterMeasures(_, _, _)
CounterMeasures(namespace, dimensions, client_id_field) ==
    IF Len(dimensions) = 0 THEN <<>>
    ELSE LET dimension == Head(dimensions)
             rest == CounterMeasures(namespace, Tail(dimensions), client_id_field)
         IN  IF IsMetric(dimension) /\ GetMetricType(dimension) = <<"counter">>
             THEN <<[name |-> GetName(dimension),
                     type |-> "sum",
                     sql |-> FieldRef(dimension.name),
                     links |-> GetLinks(namespace, dimension)],
                    [name |-> GetName(dimension) \o <<US, "client", US, "count">>,
                     type |-> "count_distinct",
                     filters |-> <<[field |-> dimension.name, cond |-> ">0"]>>,
                     sql |-> FieldRef(client_id_field),
                     links |-> GetLinks(namespace, dimension)]>> \o rest
             ELSE rest

\* The base scan takes (dimensions, table); the v1_name the extension hands on
\* plays no part in it.  An error of the base scan leaves the call at once.
GleanGetMeasures(namespace, dimensions, table) ==
    LET base == PingGetMeasures(dimensions, table)
    IN  IF ~base.ok THEN base
        ELSE LET client_id_field == GetClientId(dimensions, table)
                 measures == base.value
                             \o CounterMeasures(namespace, dimensions, client_id_field)
                 duplicates == Duplicates(Names(measures))
             IN  IF Len(duplicates) > 0
                 THEN Raises("ClickException",
                             [text |-> "duplicate measures", names |-> duplicates,
                              table |-> table])
                 ELSE Returns(measures)

(***************************************************************************)
(* GleanPingView._get_glean_metrics                                        *)
(*                                                                         *)
(* repos is GleanPing.get_repos() (the names of the registered             *)
(* applications), probes is GleanPing(repo).get_probes() of the            *)
(* application found.  A probe is [id, type, description, send_in_pings];  *)
(* the description "" is an absent one.                                    *)
(***************************************************************************)
\* The loop with the two tests the other way round: an id is taken as seen
\* before the destinations are looked at.
RECURSIVE PingProbes_DedupFirst(_, _, _)
PingProbes_DedupFirst(name, probes, seen) ==
    IF Len(probes) = 0 THEN <<>>
    ELSE LET probe == Head(probes)
         IN  IF probe.id \in seen
             THEN PingProbes_DedupFirst(name, Tail(probes), seen)
             ELSE IF name \notin probe.send_in_pings
             THEN PingProbes_DedupFirst(name, Tail(probes), seen \cup {probe.id})
             ELSE <<probe>>
                  \o PingProbes_DedupFirst(name, Tail(probes), seen \cup {probe.id})

\* The loop over the probes: seen is probe_ids.
RECURSIVE PingProbes(_, _, _)
PingProbes(name, probes, seen) ==
    IF Len(probes) = 0 THEN <<>>
    ELSE LET probe == Head(probes)
         IN  IF name \notin probe.send_in_pings
             THEN PingProbes(name, Tail(probes), seen)
             ELSE IF probe.id \in seen
             THEN PingProbes(name, Tail(probes), seen)
             ELSE <<probe>> \o PingProbes(name, Tail(probes), seen \cup {probe.id})

\* next(...) has no default: without a matching application it raises
\* StopIteration.
GetGleanMetrics(name, v1_name, repos, probes) ==
    IF v1_name = NoneVal THEN Returns(<<>>)
    ELSE IF \A i \in 1..Len(repos) : repos[i] # v1_name
    THEN Raises("StopIteration", [text |-> "", names |-> <<>>, table |-> <<>>])
    ELSE Returns(PingProbes(name, probes, {}))

(***************************************************************************)
(* GleanPingView._make_dimension, _get_metric_dimensions                   *)
(*                                                                         *)
(* sql_map is a function from column names to [sql, type].  A result that  *)
(* may be None is a sequence of at most one element.                       *)
(***************************************************************************)
DISTRIBUTION_TYPES ==
    {<<"timing", US, "distribution">>, <<"memory", US, "distribution">>,
     <<"custom", US, "distribution">>}

ALLOWED_TYPES ==
    DISTRIBUTION_TYPES \cup
    {<<"boolean">>, <<"counter">>, <<"datetime">>, <<"jwe">>, <<"quantity">>,
     <<"string">>, <<"rate">>, <<"timespan">>, <<"uuid">>}

MakeDimension(namespace, metric, suffix, sql_map) ==
    LET parts == Split(metric.id, <<DOT>>)
        name == parts[Len(parts)]
        category == Join(SubSeq(parts, 1, Len(parts) - 1), <<US>>)
        sep == IF category = <<>> THEN <<>> ELSE <<US>>
        label == IF suffix # <<>> THEN name \o <<US>> \o suffix ELSE name
        plain == <<"metrics", US, US>> \o metric.type \o Dunder \o category \o sep \o name
        looker_name == IF suffix # <<>> THEN plain \o Dunder \o suffix ELSE plain
        group_label == IF category = <<>> THEN <<"Glean">> ELSE SpacedTitle(category)
        group_item_label == SpacedTitle(label)
        lookml ==
            [name |-> looker_name,
             sql |-> sql_map[looker_name].sql,
             type |-> sql_map[looker_name].type,
             group_label |-> group_label,
             group_item_label |-> group_item_label,
             links |-> <<[label |-> <<"Glean Dictionary reference for">>
                                    \o group_label \o <<" ">> \o group_item_label,
                          url |-> <<"https://dictionary.telemetry.mozilla.org/apps/",
                                    namespace, "/metrics/">> \o category \o sep \o name,
                          icon_url |->
                              "https://dictionary.telemetry.mozilla.org/favicon.png"]>>]
    IN  IF looker_name \notin DOMAIN sql_map THEN <<>>
        ELSE IF metric.description # ""
        THEN <<[k \in DOMAIN lookml \cup {"description"} |->
                   IF k = "description" THEN metric.description ELSE lookml[k]]>>
        ELSE <<lookml>>

\* The expansion with a rate that gives up its denominator when the numerator
\* is no column.
GetMetricDimensions_RateTogether(namespace, metric, sql_map) ==
    IF metric.type = <<"rate">>
    THEN IF MakeDimension(namespace, metric, <<"numerator">>, sql_map) = <<>>
         THEN <<<<>>, <<>>>>
         ELSE <<MakeDimension(namespace, metric, <<"numerator">>, sql_map),
                MakeDimension(namespace, metric, <<"denominator">>, sql_map)>>
    ELSE IF metric.type \in DISTRIBUTION_TYPES
    THEN <<MakeDimension(namespace, metric, <<"sum">>, sql_map)>>
    ELSE IF metric.type = <<"timespan">>
    THEN <<MakeDimension(namespace, metric, <<"value">>, sql_map)>>
    ELSE IF metric.type \in ALLOWED_TYPES
    THEN <<MakeDimension(namespace, metric, <<>>, sql_map)>>
    ELSE <<>>

\* The dimensions yielded for one probe, None included.
GetMetricDimensions(namespace, metric, sql_map) ==
    IF metric.type = <<"rate">>
    THEN <<MakeDimension(namespace, metric, <<"numerator">>, sql_map),
           MakeDimension(namespace, metric, <<"denominator">>, sql_map)>>
    ELSE IF metric.type \in DISTRIBUTION_TYPES
    THEN <<MakeDimension(namespace, metric, <<"sum">>, sql_map)>>
    ELSE IF metric.type = <<"timespan">>
    THEN <<MakeDimension(namespace, metric, <<"value">>, sql_map)>>
    ELSE IF metric.type \in ALLOWED_TYPES
    THEN <<MakeDimension(namespace, metric, <<>>, sql_map)>>
    ELSE <<>>

\* The yielded dimensions that are not None.
RECURSIVE NotNone(_)
NotNone(options) ==
    IF Len(options) = 0 THEN <<>> ELSE Head(options) \o NotNone(Tail(options))

(***************************************************************************)
(* GleanPingView._get_glean_metric_dimensions, _add_link, get_dimensions   *)
(***************************************************************************)
\* The dict comprehension: of two fields with one name the later one stays.
SqlMap(all_fields) ==
    [n \in Range(Names(all_fields)) |->
        LET i == CHOOSE i \in 1..Len(all_fields) :
                     /\ all_fields[i].name = n
                     /\ \A j \in (i + 1)..Len(all_fields) : all_fields[j].name # n
            f == all_fields[i]
        IN  [sql |-> f.sql, type |-> IF "type" \in DOMAIN f THEN f.type ELSE "string"]]

RECURSIVE MetricDimensions(_, _, _)
MetricDimensions(namespace, metrics, sql_map) ==
    IF Len(metrics) = 0 THEN <<>>
    ELSE NotNone(GetMetricDimensions(namespace, Head(metrics), sql_map))
         \o MetricDimensions(namespace, Tail(metrics), sql_map)

GetGleanMetricDimensions(namespace, name, all_fields, v1_name, repos, probes) ==
    LET metrics == GetGleanMetrics(name, v1_name, repos, probes)
    IN  IF ~metrics.ok THEN metrics
        ELSE Returns(MetricDimensions(namespace, metrics.value, SqlMap(all_fields)))

AddLink(namespace, dimension) ==
    IF IsMetric(dimension) /\ ~StartsWith(GetMetricType(dimension), <<"labeled">>)
    THEN [k \in DOMAIN dimension \cup {"links"} |->
             IF k = "links" THEN GetLinks(namespace, dimension) ELSE dimension[k]]
    ELSE dimension

RECURSIVE PassThrough(_, _)
PassThrough(namespace, all_fields) ==
    IF Len(all_fields) = 0 THEN <<>>
    ELSE IF ~StartsWith(Head(all_fields).name, <<"metrics", US, US>>)
    THEN <<AddLink(namespace, Head(all_fields))>> \o PassThrough(namespace, Tail(all_fields))
    ELSE PassThrough(namespace, Tail(all_fields))

\* all_fields is what the base get_dimensions returns: the flattened columns
\* of the table.
GleanGetDimensions(namespace, name, all_fields, v1_name, repos, probes) ==
    LET metric_dimensions ==
            GetGleanMetricDimensions(namespace, name, all_fields, v1_name, repos, probes)
    IN  IF ~metric_dimensions.ok THEN metric_dimensions
        ELSE Returns(metric_dimensions.value \o PassThrough(namespace, all_fields))

(***************************************************************************)
(* Inputs of the measure derivation.                                       *)
(***************************************************************************)
Namespace == "fenix"

TableName == <<"mozdata", DOT, "fenix", DOT, "metrics">>

\* No call is in progress: the generators keep nothing between calls.
Idle == call.op = "init"

MeasureNames ==
    {client_id, client_info__client_id, document_id, metrics__counter__app_foo,
     metrics__counter__ping_count, metrics__string__app_foo}

DimLists == {[i \in 1..Len(ns) |-> Column(ns[i])] : ns \in DistinctSeqsUpTo(MeasureNames, MaxDims)}

CallPingGetMeasures ==
    /\ Idle
    /\ \E dimensions \in DimLists :
        /\ call' = [op |-> "PingView.get_measures", dimensions |-> dimensions,
                    table |-> TableName]
        /\ result' = PingGetMeasures(dimensions, TableName)

CallGleanGetMeasures ==
    /\ Idle
    /\ \E dimensions \in DimLists :
        /\ call' = [op |-> "GleanPingView.get_measures", dimensions |-> dimensions,
                    table |-> TableName]
        /\ result' = GleanGetMeasures(Namespace, dimensions, TableName)

\* get_measures on the dimensions a get_dimensions call has just returned, as
\* the view assembly does: the call keeps the inputs those dimensions came from.
CallGleanGetMeasuresOfDimensions ==
    /\ call.op = "GleanPingView.get_dimensions"
    /\ result.ok
    /\ call' = [op |-> "GleanPingView.get_measures", dimensions |-> result.value,
                table |-> TableName, all_fields |-> call.all_fields,
                probes |-> call.probes, v1_name |-> call.v1_name]
    /\ result' = GleanGetMeasures(Namespace, result.value, TableName)

(***************************************************************************)
(* Inputs of the probe selection and of the dimension derivation.          *)
(***************************************************************************)
Probe(id, type, description, pings) ==
    [id |-> id, type |-> type, description |-> description, send_in_pings |-> pings]

TypedColumn(n, t) == [name |-> n, sql |-> <<"${TABLE}", n>>, type |-> t]

Repos == <<"fenix", "focus">>

V1Names == {NoneVal, "fenix", "unknown"}

PingNames == {"metrics", "baseline"}

app_foo == <<"app", DOT, "foo">>

CatalogProbes ==
    {Probe(app_foo, <<"counter">>, "first", {"metrics"}),
     Probe(app_foo, <<"counter">>, "second", {"metrics", "baseline"}),
     Probe(app_foo, <<"counter">>, "", {"baseline"}),
     Probe(<<"foo">>, <<"string">>, "", {"metrics"})}

CallGetGleanMetrics ==
    /\ Idle
    /\ \E name \in PingNames, v1_name \in V1Names,
          probes \in SeqsUpTo(CatalogProbes, MaxCatalog) :
        /\ call' = [op |-> "_get_glean_metrics", name |-> name, v1_name |-> v1_name,
                    repos |-> Repos, probes |-> probes]
        /\ result' = GetGleanMetrics(name, v1_name, Repos, probes)

DimColumns ==
    {Column(client_id), Column(document_id),
     TypedColumn(metrics__counter__app_foo, "number"),
     TypedColumn(metrics__counter__a_b_c, "number"),
     Column(metrics__labeled_counter__app_foo)}

DimProbes ==
    {Probe(app_foo, <<"counter">>, "Counts foo", {"metrics"}),
     Probe(<<"a", DOT, "b", US, "c">>, <<"counter">>, "", {"metrics"}),
     Probe(<<"a", US, "b", DOT, "c">>, <<"counter">>, "", {"metrics", "baseline"}),
     Probe(app_foo, <<"labeled", US, "counter">>, "", {"metrics"})}

CallGleanGetDimensions ==
    /\ Idle
    /\ \E all_fields \in DistinctSeqsUpTo(DimColumns, MaxCols), v1_name \in V1Names,
          probes \in SeqsUpTo(DimProbes, MaxProbes) :
        /\ call' = [op |-> "GleanPingView.get_dimensions", name |-> "metrics",
                    all_fields |-> all_fields, v1_name |-> v1_name,
                    repos |-> Repos, probes |-> probes]
        /\ result' = GleanGetDimensions(Namespace, "metrics", all_fields, v1_name,
                                        Repos, probes)

(***************************************************************************)
(* Inputs of the type expansion: a probe of every type, with an empty, a   *)
(* one-segment and a two-segment category, against column maps that hold   *)
(* any of the probe's suffixed and unsuffixed column names.                *)
(***************************************************************************)
MetricTypes == ALLOWED_TYPES \cup {<<"labeled", US, "counter">>, <<"event">>}

\* A probe id and the column-name text that stands for it.
MetricIds ==
    {[id |-> <<"foo">>, path |-> <<"foo">>],
     [id |-> app_foo, path |-> <<"app", US, "foo">>],
     [id |-> <<"a", DOT, "b", DOT, "foo">>, path |-> <<"a", US, "b", US, "foo">>]}

Suffixes == {<<>>, <<"numerator">>, <<"denominator">>, <<"sum">>, <<"value">>}

ColumnName(type, path, suffix) ==
    <<"metrics", US, US>> \o type \o <<US, US>> \o path
    \o (IF suffix = <<>> THEN <<>> ELSE <<US, US>> \o suffix)

SqlMapOver(keys) == [n \in keys |-> [sql |-> <<"${TABLE}", n>>, type |-> "number"]]

CallGetMetricDimensions ==
    /\ Idle
    /\ \E type \in MetricTypes, m \in MetricIds :
      \E keys \in SUBSET {ColumnName(type, m.path, sfx) : sfx \in Suffixes} :
        LET metric == Probe(m.id, type, IF m.id = app_foo THEN "Counts foo" ELSE "",
                            {"metrics"})
        IN  /\ call' = [op |-> "_get_metric_dimensions", metric |-> metric,
                        path |-> m.path, keys |-> keys]
            /\ result' = Returns(GetMetricDimensions(Namespace, metric, SqlMapOver(keys)))

(***************************************************************************)
(* PingView.from_db_views, from_dict                                       *)
(*                                                                         *)
(* A view instance is [klass, name, tables].  channels is a list of        *)
(* channel entries (the channel key is optional), db_views maps a dataset  *)
(* to its (view_id, references) items in order; a reference is a list of   *)
(* strings.  The views yielded are returned as a list, in the insertion    *)
(* order of the defaultdict.                                               *)
(***************************************************************************)
OMIT_VIEWS == {"deletion_request"}

AllowGlean(klass) == klass = "GleanPingView"

\* views[view_id].append(table)
AppendTable(views, view_id, table) ==
    IF \E i \in 1..Len(views) : views[i].name = view_id
    THEN [i \in 1..Len(views) |->
             IF views[i].name = view_id
             THEN [views[i] EXCEPT !.tables = Append(@, table)]
             ELSE views[i]]
    ELSE Append(views, [name |-> view_id, tables |-> <<table>>])

\* The inner loop: the items of one dataset.
RECURSIVE ScanDataset(_, _, _)
ScanDataset(views, channel, items) ==
    IF Len(items) = 0 THEN views
    ELSE LET view_id == Head(items).view_id
             references == Head(items).references
             dataset == channel.dataset
             name == <<"mozdata", DOT>> \o dataset \o <<DOT, view_id>>
             table == IF "channel" \in DOMAIN channel
                      THEN [table |-> name, channel |-> channel.channel]
                      ELSE [table |-> name]
         IN  IF view_id \in OMIT_VIEWS
             THEN ScanDataset(views, channel, Tail(items))
             ELSE IF Len(references) # 1
                     \/ references[1][Len(references[1]) - 1] # dataset \o <<US, "stable">>
             THEN ScanDataset(views, channel, Tail(items))
             ELSE ScanDataset(AppendTable(views, view_id, table), channel, Tail(items))

\* The outer loop: the channels.
RECURSIVE ScanChannels(_, _, _)
ScanChannels(views, channels, db_views) ==
    IF Len(channels) = 0 THEN views
    ELSE ScanChannels(ScanDataset(views, Head(channels), db_views[Head(channels).dataset]),
                      Tail(channels), db_views)

FromDbViews(klass, is_glean, channels, db_views) ==
    IF (AllowGlean(klass) /\ ~is_glean) \/ (~AllowGlean(klass) /\ is_glean)
    THEN Returns(<<>>)
    ELSE LET views == ScanChannels(<<>>, channels, db_views)
         IN  Returns([i \in 1..Len(views) |->
                         [klass |-> klass, name |-> views[i].name,
                          tables |-> views[i].tables]])

FromDict(klass, name, tables) ==
    Returns(<<[klass |-> klass, name |-> name, tables |-> tables]>>)

(***************************************************************************)
(* PingView.to_lookml                                                      *)
(*                                                                         *)
(* flattened is what lookml_utils._generate_dimensions gives for the       *)
(* table.                                                                  *)
(***************************************************************************)
IsDimensionGroup(dimension) ==
    "timeframes" \in DOMAIN dimension \/ "intervals" \in DOMAIN dimension

GetChannel(table) == IF "channel" \in DOMAIN table THEN table.channel ELSE NoneVal

\* use schema for the table where channel == "release" or the first one
SchemaTable(tables) ==
    LET release == {i \in 1..Len(tables) : GetChannel(tables[i]) = "release"}
    IN  IF release # {}
        THEN tables[CHOOSE i \in release : \A j \in release : i <= j].table
        ELSE tables[1].table

\* The backquote character.
BQ == "BACKQUOTE"

\* str.title() of a channel, one word.
Title(channel) == Cap(channel)

AllowedValues(tables) ==
    [i \in 1..Len(tables) |->
        [label |-> Title(tables[i].channel), value |-> tables[i].table]]

ToLookml(self, flattened) ==
    IF Len(self.tables) = 0
    THEN Raises("IndexError", [text |-> "list index out of range", names |-> <<>>,
                               table |-> <<>>])
    ELSE LET table == SchemaTable(self.tables)
             dimensions == flattened
             NotGroup(d) == ~IsDimensionGroup(d)
             measures == PingGetMeasures(dimensions, table)
             view_defn ==
                 [name |-> self.name,
                  dimensions |-> SelectSeq(dimensions, NotGroup),
                  dimension_groups |-> SelectSeq(dimensions, IsDimensionGroup),
                  measures |-> measures.value]
         IN  IF ~measures.ok THEN measures
             ELSE IF Len(self.tables) > 1
             THEN IF \E i \in 1..Len(self.tables) : "channel" \notin DOMAIN self.tables[i]
                  THEN Raises("KeyError", [text |-> "channel", names |-> <<>>,
                                           table |-> table])
                  ELSE Returns(<<[k \in DOMAIN view_defn \cup {"parameters", "sql_table_name"} |->
                           IF k = "parameters"
                           THEN <<[name |-> "channel", type |-> "unquoted",
                                   allowed_values |-> AllowedValues(self.tables)]>>
                           ELSE IF k = "sql_table_name"
                           THEN <<BQ, "{% parameter channel %}", BQ>>
                           ELSE view_defn[k]]>>)
             ELSE Returns(<<[k \in DOMAIN view_defn \cup {"sql_table_name"} |->
                      IF k = "sql_table_name" THEN <<BQ>> \o table \o <<BQ>>
                      ELSE view_defn[k]]>>)

(***************************************************************************)
(* Inputs of the discovery and of the view assembly.                       *)
(***************************************************************************)
fenix == <<"fenix">>

fenix_beta == <<"fenix", US, "beta">>

fenix_nightly == <<"fenix", US, "nightly">>

focus == <<"focus">>

Datasets == {fenix, fenix_beta, fenix_nightly, focus}

ChannelEntries ==
    {[dataset |-> fenix, channel |-> "release"],
     [dataset |-> fenix_beta, channel |-> "beta"],
     [dataset |-> fenix_nightly],
     [dataset |-> focus]}

StableRef(dataset, view_id) ==
    <<<<"moz-fx-data-shared-prod">>, dataset \o <<US, "stable">>, <<view_id, US, "v1">>>>

DerivedRef(dataset, view_id) ==
    <<<<"moz-fx-data-shared-prod">>, dataset \o <<US, "derived">>, <<view_id, US, "v1">>>>

Item(view_id, references) == [view_id |-> view_id, references |-> references]

\* Every dataset holds the baseline ping's view, a view on the omit list, and
\* a view that is no alias of a stable table.
DbViewsPlain ==
    [d \in Datasets |->
        <<Item("baseline", <<StableRef(d, "baseline")>>),
          Item("deletion_request", <<StableRef(d, "deletion_request")>>),
          Item("events", <<DerivedRef(d, "events")>>)>>]

\* The metrics view is a ping view but in fenix_nightly, where it joins two
\* tables.
DbViewsJoined ==
    [d \in Datasets |->
        <<Item("metrics",
               IF d = fenix_nightly
               THEN <<StableRef(d, "metrics"), StableRef(d, "baseline")>>
               ELSE <<StableRef(d, "metrics")>>),
          Item("baseline", <<StableRef(d, "baseline")>>)>>]

DbViews(db) == IF db = "plain" THEN DbViewsPlain ELSE DbViewsJoined

Klasses == {"PingView", "GleanPingView"}

CallFromDbViews ==
    /\ Idle
    /\ \E klass \in Klasses, is_glean \in BOOLEAN,
          channels \in DistinctSeqsUpTo(ChannelEntries, MaxChannels),
          db \in {"plain", "joined"} :
        /\ call' = [op |-> "from_db_views", klass |-> klass, is_glean |-> is_glean,
                    channels |-> channels, db_views |-> db]
        /\ result' = FromDbViews(klass, is_glean, channels, DbViews(db))

DictTables ==
    {[table |-> <<"mozdata", DOT, "fenix", DOT, "baseline">>, channel |-> "release"],
     [table |-> <<"mozdata", DOT, "fenix", US, "beta", DOT, "baseline">>, channel |-> "beta"]}

CallFromDict ==
    /\ Idle
    /\ \E tables \in SeqsUpTo(DictTables, MaxChannels) :
        /\ call' = [op |-> "from_dict", klass |-> "PingView", name |-> "baseline",
                    tables |-> tables]
        /\ result' = FromDict("PingView", "baseline", tables)

FlatColumns ==
    {Column(client_id), Column(document_id),
     [name |-> <<"submission">>, sql |-> <<"${TABLE}", <<"submission", US, "timestamp">>>>,
      type |-> "time", timeframes |-> <<"raw", "date">>]}

\* to_lookml on a view a constructor has just given.
CallToLookml ==
    /\ call.op \in {"from_db_views", "from_dict"}
    /\ result.ok
    /\ \E i \in 1..Len(result.value), flattened \in DistinctSeqsUpTo(FlatColumns, MaxFlat) :
        /\ result.value[i].klass = "PingView"
        /\ call' = [op |-> "to_lookml", self |-> result.value[i], flattened |-> flattened,
                    from |-> call.op]
        /\ result' = ToLookml(result.value[i], flattened)

Init ==
    /\ call = [op |-> "init"]
    /\ result = Returns(<<>>)

\* The caller has taken the result (or the exception).
Finish ==
    /\ ~Idle
    /\ call' = [op |-> "init"]
    /\ result' = Returns(<<>>)

Next ==
    \/ Finish
    \/ CallPingGetMeasures
    \/ CallGleanGetMeasures
    \/ CallGleanGetMeasuresOfDimensions
    \/ CallGetGleanMetrics
    \/ CallGleanGetDimensions
    \/ CallGetMetricDimensions
    \/ CallFromDbViews
    \/ CallFromDict
    \/ CallToLookml

Spec == Init /\ [][Next]_vars

(***************************************************************************)
(* Vocabulary of the properties.                                           *)
(***************************************************************************)
clients == <<"clients">>

ping_count == <<"ping", US, "count">>

client_count == <<US, "client", US, "count">>

HasName(ds, n) == \E i \in 1..Len(ds) : ds[i].name = n

CountNamed(ds, n) == Cardinality({i \in 1..Len(ds) : ds[i].name = n})

PairwiseDistinct(ns) == \A i, j \in 1..Len(ns) : i # j => ns[i] # ns[j]

HasMetricsPrefix(n) == Len(n) >= 3 /\ n[1] = "metrics" /\ n[2] = US /\ n[3] = US

\* The elements of s at the indexes in K, in order.
RECURSIVE AtIndexes(_, _, _)
AtIndexes(s, K, i) ==
    IF i > Len(s) THEN <<>>
    ELSE (IF i \in K THEN <<s[i]>> ELSE <<>>) \o AtIndexes(s, K, i + 1)

InBaseCall == call.op = "PingView.get_measures"

InGleanMeasures == call.op = "GleanPingView.get_measures"

(***************************************************************************)
(* C1                                                                      *)
(***************************************************************************)
ClientIdColumns(ds) ==
    {i \in 1..Len(ds) : ds[i].name = client_id \/ ds[i].name = client_info__client_id}

OneOfEach ==
    /\ result.ok
    /\ CountNamed(result.value, clients) = 1
    /\ CountNamed(result.value, ping_count) = 1

NoIdentityColumn(ds) ==
    \A i \in 1..Len(ds) :
        ds[i].name \notin {client_id, client_info__client_id, document_id}

InGetDimensions == call.op = "GleanPingView.get_dimensions"

\* C3 as stated: the dimension list GleanPingView.get_dimensions returns has
\* pairwise distinct names (an input that would repeat a name raises instead).
C3_DimensionNamesDistinct ==
    (InGetDimensions /\ result.ok) => PairwiseDistinct(Names(result.value))

(***************************************************************************)
(* C4                                                                      *)
(***************************************************************************)
\* The names of the full measure list: the base scan, then the counters.
FullMeasureNames(ds) ==
    Names(ScanMeasures(ds) \o CounterMeasures(Namespace, ds, GetClientId(ds, TableName)))

Repeated(ns) == {n \in Range(ns) : Occurrences(ns, n) > 1}

\* C4 as stated: when the full measure list of GleanPingView.get_measures
\* repeats a name, the call raises an error that names every repeated measure
\* name and the table; a returned measure list has pairwise distinct names.
C4_EveryDuplicateNamed ==
    InGleanMeasures =>
        /\ Repeated(FullMeasureNames(call.dimensions)) # {}
           => /\ ~result.ok
              /\ Range(result.msg.names) = Repeated(FullMeasureNames(call.dimensions))
              /\ result.msg.table = call.table
        /\ result.ok => PairwiseDistinct(Names(result.value))

(***************************************************************************)
(* C5                                                                      *)
(***************************************************************************)
\* get_measures on dimensions that get_dimensions materialized from probes.
InMeasuresOfDimensions == InGleanMeasures /\ "probes" \in DOMAIN call

Leaf(id) == LET parts == Split(id, <<DOT>>) IN parts[Len(parts)]

\* The probe id with every "." turned into "_".
Underscored(id) == [i \in 1..Len(id) |-> IF id[i] = DOT THEN US ELSE id[i]]

CounterColumn(id) == <<"metrics", US, US, "counter", US, US>> \o Underscored(id)

\* The counter probes whose column is among the dimensions the call was given.
MaterializedCounters ==
    {p \in Range(call.probes) :
        p.type = <<"counter">> /\ HasName(call.dimensions, CounterColumn(p.id))}

IsCounterDimension(d) ==
    /\ Len(d.name) > 6
    /\ SubSeq(d.name, 1, 6) = <<"metrics", US, US, "counter", US, US>>

\* The text of a name after its last "__".
AfterLastDunder(n) ==
    LET at == {i \in 1..(Len(n) - 1) : n[i] = US /\ n[i + 1] = US}
    IN  IF at = {} THEN n
        ELSE SubSeq(n, (CHOOSE i \in at : \A j \in at : j <= i) + 2, Len(n))

RECURSIVE ExpectedCounterMeasures(_)
ExpectedCounterMeasures(ds) ==
    IF Len(ds) = 0 THEN <<>>
    ELSE (IF IsCounterDimension(Head(ds))
          THEN <<[name |-> AfterLastDunder(Head(ds).name), type |-> "sum",
                  of |-> Head(ds).name],
                 [name |-> AfterLastDunder(Head(ds).name) \o client_count,
                  type |-> "count_distinct", of |-> Head(ds).name]>>
          ELSE <<>>) \o ExpectedCounterMeasures(Tail(ds))

NumberOfBaseMeasures(ds) ==
    Cardinality({i \in 1..Len(ds) :
        ds[i].name \in {client_id, client_info__client_id, document_id}})

Keeps(d, f) == \A k \in DOMAIN f : k \in DOMAIN d /\ d[k] = f[k]

IsLabeled(n) == HasMetricsPrefix(n) /\ Len(n) >= 4 /\ n[4] = "labeled"

\* C6 as stated: every flattened column whose name does not begin with
\* metrics__ is in the output of get_dimensions with its fields unchanged and a
\* links annotation added, and no column of a labeled metric type has links.
C6_PassThroughColumnsLinked ==
    (InGetDimensions /\ result.ok)
    => /\ \A i \in 1..Len(call.all_fields) :
             ~HasMetricsPrefix(call.all_fields[i].name)
             => \E j \in 1..Len(result.value) :
                   /\ Keeps(result.value[j], call.all_fields[i])
                   /\ "links" \in DOMAIN result.value[j]
       /\ \A j \in 1..Len(result.value) :
             IsLabeled(result.value[j].name) => "links" \notin DOMAIN result.value[j]

(***************************************************************************)
(* C7                                                                      *)
(***************************************************************************)
NoSuchApplication ==
    call.v1_name = NoneVal \/ \A i \in 1..Len(call.repos) : call.repos[i] # call.v1_name

\* C7 as stated: with an application key that is absent or matches no
\* registered application, probe resolution does not raise and gives no
\* probes, and get_dimensions returns the pass-through columns alone.
C7_UnknownApplicationIsNotFatal ==
    /\ (call.op = "_get_glean_metrics" /\ NoSuchApplication)
       => (result.ok /\ result.value = <<>>)
    /\ (InGetDimensions /\ NoSuchApplication)
       => /\ result.ok
          /\ Len(result.value)
             = Cardinality({i \in 1..Len(call.all_fields) :
                               ~HasMetricsPrefix(call.all_fields[i].name)})
          /\ \A j \in 1..Len(result.value) : ~HasMetricsPrefix(result.value[j].name)

(***************************************************************************)
(* C8                                                                      *)
(***************************************************************************)
InProbeSelection ==
    /\ call.op = "_get_glean_metrics"
    /\ \E i \in 1..Len(call.repos) : call.repos[i] = call.v1_name

SentHere(p) == call.name \in p.send_in_pings

\* C8 as stated: the surviving probes are the catalog entries that are the
\* first entry with their id and are sent in this ping, in catalog order.
C8_DedupThenFilter ==
    InProbeSelection
    => /\ result.ok
       /\ result.value
          = AtIndexes(call.probes,
                      {i \in 1..Len(call.probes) :
                          /\ \A j \in 1..(i - 1) : call.probes[j].id # call.probes[i].id
                          /\ SentHere(call.probes[i])},
                      1)

\* C8 amended: probe selection filters by destination first and then
\* deduplicates by id: the surviving probes are the catalog entries that are
\* sent in this ping and are the first such entry with their id, in catalog
\* order; an id contributes at most one probe, and contributes one whenever
\* any entry with that id is sent in this ping.
C8_FilterThenDedup ==
    InProbeSelection
    => /\ result.ok
       /\ result.value
          = AtIndexes(call.probes,
                      {i \in 1..Len(call.probes) :
                          /\ SentHere(call.probes[i])
                          /\ \A j \in 1..(i - 1) :
                                call.probes[j].id = call.probes[i].id
                                => ~SentHere(call.probes[j])},
                      1)
       /\ \A i, j \in 1..Len(result.value) :
             i # j => result.value[i].id # result.value[j].id
       /\ \A i \in 1..Len(call.probes) :
             SentHere(call.probes[i])
             => \E j \in 1..Len(result.value) : result.value[j].id = call.probes[i].id

C8_Witness ==
    /\ InProbeSelection
    /\ call.name = "metrics"
    /\ Len(call.probes) = 3
    /\ ~SentHere(call.probes[1])
    /\ SentHere(call.probes[2])
    /\ SentHere(call.probes[3])
    /\ call.probes[1].id = call.probes[2].id
    /\ call.probes[2].id = call.probes[3].id
    /\ result.ok
    /\ result.value = <<call.probes[2]>>

(***************************************************************************)
(* C9                                                                      *)
(***************************************************************************)
\* The type-expansion table.
CandidateSuffixes(type) ==
    CASE type = <<"rate">> -> <<<<"numerator">>, <<"denominator">>>>
      [] type \in {<<"timing", US, "distribution">>, <<"memory", US, "distribution">>,
                   <<"custom", US, "distribution">>} -> <<<<"sum">>>>
      [] type = <<"timespan">> -> <<<<"value">>>>
      [] type \in {<<"boolean">>, <<"counter">>, <<"datetime">>, <<"jwe">>,
                   <<"quantity">>, <<"string">>, <<"uuid">>} -> <<<<>>>>
      [] OTHER -> <<>>

\* C9: the dimensions materialized for a probe are, candidate by candidate of
\* the type-expansion table, the one named
\* metrics__<type>__<categoryPath>[_]<leaf>[__<suffix>] when that name is a key
\* of the column map and none when it is not.
C9_TypeExpansion ==
    call.op = "_get_metric_dimensions"
    => LET suffixes == CandidateSuffixes(call.metric.type)
       IN  /\ result.ok
           /\ Len(result.value) = Len(suffixes)
           /\ \A i \in 1..Len(suffixes) :
                 LET n == ColumnName(call.metric.type, call.path, suffixes[i])
                 IN  IF n \in call.keys
                     THEN /\ Len(result.value[i]) = 1
                          /\ result.value[i][1].name = n
                     ELSE result.value[i] = <<>>

C9_Witness ==
    /\ call.op = "_get_metric_dimensions"
    /\ call.metric.type = <<"rate">>
    /\ call.metric.id = <<"a", DOT, "b", DOT, "foo">>
    /\ Len(result.value) = 2
    /\ result.value[1] = <<>>
    /\ Len(result.value[2]) = 1
    /\ result.value[2][1].name
       = <<"metrics", US, US, "rate", US, US, "a", US, "b", US, "foo", US, US, "denominator">>

(***************************************************************************)
(* C10                                                                     *)
(***************************************************************************)
\* to_lookml on a view whose measure derivation has what it needs.
InToLookml ==
    /\ call.op = "to_lookml"
    /\ \E i \in 1..Len(call.flattened) :
          call.flattened[i].name \in {client_id, document_id}

\* C10 as stated: to_lookml on a view with more than one table variant,
\* among them every such view from_db_views yields, emits the channel
\* parameter with one allowed value per variant in order and the parameter
\* reference as table name; with exactly one variant it emits no parameter and
\* the literal table name.
C10_ChannelParameter ==
    InToLookml
    => LET tables == call.self.tables
       IN  /\ Len(tables) > 1
              => /\ result.ok
                 /\ "parameters" \in DOMAIN result.value[1]
                 /\ result.value[1].parameters
                    = <<[name |-> "channel", type |-> "unquoted",
                         allowed_values |->
                             [i \in 1..Len(tables) |->
                                 [label |-> Cap(tables[i].channel),
                                  value |-> tables[i].table]]]>>
                 /\ result.value[1].sql_table_name = <<BQ, "{% parameter channel %}", BQ>>
           /\ Len(tables) = 1
              => /\ result.ok
                 /\ "parameters" \notin DOMAIN result.value[1]
                 /\ result.value[1].sql_table_name = <<BQ>> \o tables[1].table \o <<BQ>>

====
